---- MODULE Spec2Model ----
(***************************************************************************)
(* ID-photo generation round trip: the client invoker generateIdPhoto, the *)
(* serverless handler of POST /api/generate, and the external generation   *)
(* API the handler calls.                                                  *)
(*                                                                         *)
(* A JavaScript string is a sequence of atoms: an atom is one character or *)
(* one literal chunk of a template.  Concatenation is \o, the empty string *)
(* is << >>.  A JavaScript value is a record tagged with its type, so that *)
(* undefined, the empty string, and false are three different values.      *)
(***************************************************************************)
EXTENDS Integers, Sequences, FiniteSets, TLC

VARIABLES
    deployed,   \* which draft of the handler is deployed: "verbose" | "concise"
    env,        \* process.env of the function, as far as the handler reads it
    req,        \* the inbound request the handler is invoked with
    hpc,        \* handler position: idle | start | awaiting | done | aborted
    res,        \* the VercelResponse: status, headers, body
    sent,       \* number of responses the handler has sent (end / json)
    escaped,    \* the exception that propagated out of handler, if any
    calls,      \* number of ai.models.generateContent invocations
    apiCall,    \* the arguments of the generateContent invocation
    ext,        \* how the external call settled
    bodyRead,   \* req.body has been read
    envRead,    \* process.env.API_KEY has been read
    log,        \* what console.log / console.error received
    client,     \* which draft of generateIdPhoto runs: none | A | B
    cargs,      \* the arguments of generateIdPhoto
    cpc,        \* client position: idle | fetching | received | failed | done
    http,       \* the Response that fetch resolved with
    cresult     \* how the promise of generateIdPhoto settled

vars == <<deployed, env, req, hpc, res, sent, escaped, calls, apiCall, ext,
          bodyRead, envRead, log, client, cargs, cpc, http, cresult>>

handlerVars == <<res, sent, escaped, calls, apiCall, ext, bodyRead, envRead, log>>
clientVars == <<client, cargs, cpc, http, cresult>>

----------------------------------------------------------------------------
(* Bounds of the model *)

\* longest list of content segments the external API returns
MaxParts == 2
\* how far beyond the truncation length a text body may run
MaxExtra == 2

----------------------------------------------------------------------------
(* JavaScript values *)

Undefined == [type |-> "undefined", str |-> << >>, bool |-> FALSE]
JsString(s) == [type |-> "string", str |-> s, bool |-> FALSE]
JsBool(b) == [type |-> "boolean", str |-> << >>, bool |-> b]

\* ToBoolean: undefined, "" and false are falsy
Truthy(v) == \/ v.type = "string" /\ v.str # << >>
             \/ v.type = "boolean" /\ v.bool

\* typeof v === 'undefined'
TypeofUndefined(v) == v.type = "undefined"

\* a thrown value: an Error with a message, or some other throwable
NoError == [thrown |-> FALSE, isError |-> FALSE, message |-> << >>]
NewError(m) == [thrown |-> TRUE, isError |-> TRUE, message |-> m]
NonError == [thrown |-> TRUE, isError |-> FALSE, message |-> << >>]

\* property read o.k of an object: undefined when the property is absent
Get(o, k) == IF k \in DOMAIN o THEN o[k] ELSE Undefined

----------------------------------------------------------------------------
(* The HTTP body on the wire, and the JSON conversions *)

NoBodyYet == [kind |-> "none", obj |-> << >>, text |-> << >>]
TextBody(t) == [kind |-> "text", obj |-> << >>, text |-> t]
JsonNullBody == [kind |-> "null", obj |-> << >>, text |-> << >>]

\* JSON.stringify of an object: a property whose value is undefined is dropped
JsonStringify(o) ==
    [kind |-> "object",
     obj  |-> [k \in {f \in DOMAIN o : ~TypeofUndefined(o[f])} |-> o[k]],
     text |-> << >>]

\* JSON.parse succeeds on the body
IsJson(b) == b.kind \in {"object", "null"}

----------------------------------------------------------------------------
(* Messages of the handler *)

MissingParamsMsg == <<"Missing required parameters in request body.">>
\* the fixed text "サーバー側のAPIキー設定に問題があります。..." (one literal)
ConfigErrorMsg == <<"[server-side API key configuration problem: check that API_KEY is set in Vercel Settings > Environment Variables; redeploy]">>
\* "生成が安全ポリシーによりブロックされました。..."
SafetyMsg == <<"[generation was blocked by the safety policy]">>
\* "AIから空のレスポンスが返されました。時間をおいて再度お試しください。"
EmptyResponseMsg == <<"[the AI returned an empty response; try again later]">>
\* "AIからのメッセージ: "
AiMessagePrefix == <<"[message from the AI]: ">>
\* "AIが画像を生成できませんでした。別の写真で試すか、設定を変更してください。"
CouldNotGenerateMsg == <<"[the AI could not generate an image; try another photo or settings]">>
\* "不明なエラーが発生しました。"
UnknownErrorMsg == <<"[an unknown error occurred]">>

----------------------------------------------------------------------------
(* Prompt builder *)

\* the option strings of the UI, romanised: 青, 白, グレー, 男性用スーツ, 女性用スーツ
Blue == <<"ao">>
White == <<"shiro">>
Gray == <<"gure-">>
MaleSuit == <<"danseiyou su-tsu">>
FemaleSuit == <<"joseiyou su-tsu">>

\* as getBackgroundColorHex, with another default colour
getBackgroundColorHexBlackDefault(color) ==
    CASE color = JsString(Blue) -> <<"#a0d8ef">>
      [] color = JsString(White) -> <<"#ffffff">>
      [] color = JsString(Gray) -> <<"#f0f0f0">>
      [] OTHER -> <<"#000000">>

getBackgroundColorHex(color) ==
    CASE color = JsString(Blue) -> <<"#a0d8ef">>
      [] color = JsString(White) -> <<"#ffffff">>
      [] color = JsString(Gray) -> <<"#f0f0f0">>
      [] OTHER -> <<"#ffffff">>

getOutfitDescription(outfit) ==
    CASE outfit = JsString(MaleSuit) ->
            <<"dark-colored business suit with a white collared shirt and a simple tie">>
      [] outfit = JsString(FemaleSuit) ->
            <<"dark-colored business suit with a white blouse">>
      [] OTHER -> <<"professional business attire">>

beautificationInstructionsVerbose ==
    <<"6.  **Beautification:** Apply subtle, natural skin smoothing to reduce minor blemishes, but preserve permanent features like moles and scars. Slightly enhance eye clarity.">>

beautificationInstructionsConcise ==
    <<"Subtle, natural skin smoothing to reduce minor blemishes, preserve permanent features like moles/scars, and slightly enhance eye clarity.">>

PromptVerbose(outfit, backgroundColor, enableBeautification) ==
    <<"As an expert AI photo editor, transform the user's photo into a professional ID photo following these rules:",
      "1.  **Clothing:** Change the attire to a ">>
    \o getOutfitDescription(outfit)
    \o <<". Ensure it fits naturally.",
         "2.  **Background:** Replace the original background with a solid, smooth color: ">>
    \o getBackgroundColorHex(backgroundColor)
    \o <<".",
         "3.  **Composition:** Center the subject, looking forward. Adjust head tilt so the eye-line is horizontal. Ensure proper headroom for an ID photo.",
         "4.  **Lighting & Quality:** Re-light the subject with soft, professional studio lighting. Eliminate harsh shadows. The final image must be sharp, clear, high-resolution, and suitable for printing.",
         "5.  **Identity:** CRITICAL: Do not alter core facial features (eyes, nose, mouth, face shape). The subject must be easily identifiable.">>
    \o (IF Truthy(enableBeautification)
          THEN beautificationInstructionsVerbose
          ELSE <<"6. **Beautification:** ", "All cosmetic adjustments are disabled.">>)
    \o <<"Output only the final image file.">>

PromptConcise(outfit, backgroundColor, enableBeautification) ==
    <<"Objective: Convert user photo to a professional ID photo.",
      "Rules:",
      "- Attire: Change to a ">>
    \o getOutfitDescription(outfit)
    \o <<". Fit naturally.",
         "- Background: Replace with solid color, hex code ">>
    \o getBackgroundColorHex(backgroundColor)
    \o <<".",
         "- Pose: Center subject, forward-facing, horizontal eye-line. Ensure proper ID photo headroom.",
         "- Lighting: Re-light with professional, soft studio lighting. Eliminate harsh shadows.",
         "- Quality: Output must be high-resolution, sharp, clear, and print-ready.",
         "- Identity Preservation: CRITICAL - Do NOT alter core facial features (eyes, nose, mouth, shape). Subject must remain identifiable.",
         "- Beautification: ">>
    \o (IF Truthy(enableBeautification)
          THEN beautificationInstructionsConcise
          ELSE <<"Disabled.">>)
    \o <<"- Final Output: Return only the final image file. No text.">>

BuildPrompt(draft, outfit, backgroundColor, enableBeautification) ==
    IF draft = "verbose"
      THEN PromptVerbose(outfit, backgroundColor, enableBeautification)
      ELSE PromptConcise(outfit, backgroundColor, enableBeautification)

----------------------------------------------------------------------------
(* The inbound request *)

FieldNames == {"base64Image", "mimeType", "backgroundColor", "outfit", "enableBeautification"}

\* req.body as the platform's body parser hands it over: the parsed JSON
\* object, or undefined when the request carries no body
UndefinedBody == [defined |-> FALSE, obj |-> << >>]
ParseRequestBody(wire) ==
    IF wire.kind = "object" THEN [defined |-> TRUE, obj |-> wire.obj] ELSE UndefinedBody

\* const { base64Image, ... } = req.body, for a body that is an object
Destructure(body) == [k \in FieldNames |-> Get(body.obj, k)]

\* as MissingParams, testing enableBeautification for truthiness
MissingParamsFalsy(f) ==
    \/ ~Truthy(f.base64Image)
    \/ ~Truthy(f.mimeType)
    \/ ~Truthy(f.backgroundColor)
    \/ ~Truthy(f.outfit)
    \/ ~Truthy(f.enableBeautification)

\* the validation of the request body
MissingParams(f) ==
    \/ ~Truthy(f.base64Image)
    \/ ~Truthy(f.mimeType)
    \/ ~Truthy(f.backgroundColor)
    \/ ~Truthy(f.outfit)
    \/ TypeofUndefined(f.enableBeautification)

----------------------------------------------------------------------------
(* The response object of the handler *)

NoResponse == [status |-> 0, headers |-> {}, body |-> NoBodyYet]

\* res.status(code).json(o)
JsonResponse(r, code, o) ==
    [status |-> code, headers |-> r.headers, body |-> JsonStringify(o)]

\* as MethodNotAllowedResponse, without the Allow header
MethodNotAllowedNoHeader(r) ==
    [status  |-> 405,
     headers |-> r.headers,
     body    |-> TextBody(<<"Method Not Allowed">>)]

\* res.setHeader('Allow', 'POST'); res.status(405).end('Method Not Allowed')
MethodNotAllowedResponse(r) ==
    [status  |-> 405,
     headers |-> r.headers \cup {<<"Allow", "POST">>},
     body    |-> TextBody(<<"Method Not Allowed">>)]

MissingParamsResponse(r) ==
    JsonResponse(r, 400, [error |-> JsString(MissingParamsMsg)])

\* Object.keys(process.env)
EnvKeys(e) ==
    (IF TypeofUndefined(e.API_KEY) THEN << >> ELSE <<"API_KEY">>) \o <<"PATH", "VERCEL_ENV">>

\* as ConfigErrorResponse, with the environment's keys in the message
ConfigErrorResponseWithKeys(r, e) ==
    JsonResponse(r, 500, [error |-> JsString(ConfigErrorMsg \o EnvKeys(e))])

\* the answer to a missing credential; e is process.env
ConfigErrorResponse(r, e) ==
    JsonResponse(r, 500, [error |-> JsString(ConfigErrorMsg)])

----------------------------------------------------------------------------
(* The response of the external generation API and its interpretation *)

NoCandidate == [defined |-> FALSE, finishReason |-> "", content |-> "undefined", parts |-> << >>]

\* response.candidates?.[0]
FirstCandidate(response) ==
    IF response.hasCandidates /\ Len(response.candidates) > 0
      THEN response.candidates[1]
      ELSE NoCandidate

HasInlineData(p) == p.inlineData.defined
HasText(p) == Truthy(p.text)

\* parts.find(p => p.inlineData): index of the first such segment, 0 if none
FindInlineData(parts) ==
    IF \E i \in 1..Len(parts) : HasInlineData(parts[i])
      THEN CHOOSE i \in 1..Len(parts) :
             HasInlineData(parts[i]) /\ \A j \in 1..(i - 1) : ~HasInlineData(parts[j])
      ELSE 0

\* parts.find(p => p.text): index of the first such segment, 0 if none
FindText(parts) ==
    IF \E i \in 1..Len(parts) : HasText(parts[i])
      THEN CHOOSE i \in 1..Len(parts) :
             HasText(parts[i]) /\ \A j \in 1..(i - 1) : ~HasText(parts[j])
      ELSE 0

\* as InterpretResponse, looking for an image before the finish reason
InterpretResponseImageFirst(r, response) ==
    LET candidate == FirstCandidate(response)
        parts     == candidate.parts
        imagePart == FindInlineData(parts)
        textPart  == FindText(parts)
    IN  IF ~candidate.defined \/ candidate.content # "parts" \/ Len(parts) = 0
          THEN IF candidate.defined /\ candidate.finishReason = "SAFETY"
                 THEN JsonResponse(r, 400, [error |-> JsString(SafetyMsg)])
                 ELSE JsonResponse(r, 500, [error |-> JsString(EmptyResponseMsg)])
        ELSE IF imagePart # 0
          THEN JsonResponse(r, 200, [base64Image |-> parts[imagePart].inlineData.data])
        ELSE IF candidate.finishReason = "SAFETY"
          THEN JsonResponse(r, 400, [error |-> JsString(SafetyMsg)])
        ELSE IF textPart # 0
          THEN JsonResponse(r, 500,
                   [error |-> JsString(AiMessagePrefix \o parts[textPart].text.str)])
        ELSE JsonResponse(r, 500, [error |-> JsString(CouldNotGenerateMsg)])

\* the branches after the awaited call, for a response that is an object
InterpretResponse(r, response) ==
    LET candidate == FirstCandidate(response)
        parts     == candidate.parts
        imagePart == FindInlineData(parts)
        textPart  == FindText(parts)
    IN  IF candidate.defined /\ candidate.finishReason = "SAFETY"
          THEN JsonResponse(r, 400, [error |-> JsString(SafetyMsg)])
        ELSE IF ~candidate.defined \/ candidate.content # "parts" \/ Len(parts) = 0
          THEN JsonResponse(r, 500, [error |-> JsString(EmptyResponseMsg)])
        ELSE IF imagePart # 0
          THEN JsonResponse(r, 200, [base64Image |-> parts[imagePart].inlineData.data])
        ELSE IF textPart # 0
          THEN JsonResponse(r, 500,
                   [error |-> JsString(AiMessagePrefix \o parts[textPart].text.str)])
        ELSE JsonResponse(r, 500, [error |-> JsString(CouldNotGenerateMsg)])

\* the catch block of the handler
CatchResponse(r, error) ==
    LET message == IF error.isError THEN error.message ELSE UnknownErrorMsg
    IN  JsonResponse(r, 500, [error |-> JsString(message)])

\* reading response.candidates of a response that is not an object
TypeErrorOfUndefined == NewError(<<"Cannot read properties of undefined (reading 'candidates')">>)

----------------------------------------------------------------------------
(* The client invoker *)

\* substring(0, 200)
TruncLen == 200

\* "サーバーでエラーが発生しました。"
ServerErrorMsg == <<"[an error occurred on the server]">>
\* "サーバーエラーが発生しました (ステータス: ${response.status})。"
StatusErrorMsg(status) == <<"[a server error occurred] (status: ", ToString(status), ")">>
\* "サーバーから画像データが返されませんでした。"
NoImageDataMsg == <<"[no image data was returned by the server]">>
\* "不明なエラーにより写真の生成に失敗しました。"
UnknownFailureMsg == <<"[photo generation failed with an unknown error]">>

Resolved(v) == [state |-> "resolved", value |-> v, error |-> NoError]
Rejected(e) == [state |-> "rejected", value |-> Undefined, error |-> e]
Pending == [state |-> "pending", value |-> Undefined, error |-> NoError]

\* response.ok
Ok(response) == response.status >= 200 /\ response.status <= 299

\* await response.json(): reads the body to its end, then parses it
ResponseJson(response) ==
    [threw    |-> ~IsJson(response.body),
     error    |-> NewError(<<"SyntaxError: Unexpected token in JSON">>),
     isNull   |-> response.body.kind = "null",
     data     |-> response.body.obj,
     bodyUsed |-> TRUE]

\* await response.text(): rejects when the body has been read already
ResponseText(response, bodyUsed) ==
    [threw |-> bodyUsed,
     text  |-> IF response.body.kind = "text" THEN response.body.text ELSE <<"{json}">>]

\* property read on the parsed JSON value null
TypeErrorOfNull == NewError(<<"Cannot read properties of null">>)

\* the outer catch: an Error is rethrown, anything else is replaced
ClientCatch(error) ==
    Rejected(IF error.isError THEN error ELSE NewError(UnknownFailureMsg))

\* as ReturnImage, without the check of the image field
ReturnImageUnchecked(data) == Resolved(Get(data, "base64Image"))

\* the check of data.base64Image and the return
ReturnImage(data) ==
    IF ~Truthy(Get(data, "base64Image"))
      THEN ClientCatch(NewError(NoImageDataMsg))
      ELSE Resolved(Get(data, "base64Image"))

\* errorText.substring(0, 200) + (errorText.length > 200 ? '...' : '')
Truncate(errorText) ==
    SubSeq(errorText, 1, IF Len(errorText) < TruncLen THEN Len(errorText) ELSE TruncLen)
    \o (IF Len(errorText) > TruncLen THEN <<".", ".", ".">> ELSE << >>)

\* the draft that parses the body before it looks at the status
generateIdPhotoA(response) ==
    LET parsed == ResponseJson(response)
    IN  IF parsed.threw THEN ClientCatch(parsed.error)
        ELSE IF parsed.isNull THEN ClientCatch(TypeErrorOfNull)
        ELSE IF ~Ok(response)
          THEN ClientCatch(NewError(
                   IF Truthy(Get(parsed.data, "error"))
                     THEN Get(parsed.data, "error").str
                     ELSE ServerErrorMsg))
        ELSE ReturnImage(parsed.data)

\* the message of the Error thrown for a non-success status
ErrorMessageB(response) ==
    LET errorMessage == StatusErrorMsg(response.status)
        parsed       == ResponseJson(response)
        read         == ResponseText(response, parsed.bodyUsed)
    IN  IF ~parsed.threw /\ ~parsed.isNull
          THEN IF Truthy(Get(parsed.data, "error"))
                 THEN Get(parsed.data, "error").str
                 ELSE errorMessage
        ELSE IF read.threw THEN errorMessage
        ELSE Truncate(read.text)

\* the draft that looks at the status first
generateIdPhotoB(response) ==
    IF ~Ok(response)
      THEN ClientCatch(NewError(ErrorMessageB(response)))
      ELSE LET parsed == ResponseJson(response)
           IN  IF parsed.threw THEN ClientCatch(parsed.error)
               ELSE IF parsed.isNull THEN ClientCatch(TypeErrorOfNull)
               ELSE ReturnImage(parsed.data)

----------------------------------------------------------------------------
(* Inputs *)

Purple == <<"murasaki">>
CasualWear == <<"shifuku">>

ImageValues == {JsString(<<>>), JsString(<<"img">>)}
ColorValues == {JsString(Blue), JsString(White), JsString(Gray), JsString(Purple)}
OutfitValues == {JsString(MaleSuit), JsString(FemaleSuit), JsString(CasualWear)}

\* the arguments generateIdPhoto is called with
ClientArgs ==
    [base64Image : ImageValues, mimeType : {JsString(<<"image/png">>)},
     backgroundColor : ColorValues, outfit : OutfitValues,
     enableBeautification : {JsBool(TRUE), JsBool(FALSE)}]

\* bodies of requests that reach the endpoint from elsewhere
RawBodies ==
    {UndefinedBody} \cup
    { ParseRequestBody(JsonStringify(o)) : o \in
        [base64Image : {Undefined, JsString(<<"img">>)},
         mimeType : {Undefined, JsString(<<"image/png">>)},
         backgroundColor : {Undefined, JsString(Blue)},
         outfit : {Undefined, JsString(MaleSuit)},
         enableBeautification : {Undefined, JsBool(TRUE), JsBool(FALSE)}] }

RawRequests == [method : {"POST", "GET"}, body : RawBodies]

EnvValues == [API_KEY : {Undefined, JsString(<<>>), JsString(<<"secret-key">>)}]

\* content segments of the external API
InlineDataValues ==
    {[defined |-> TRUE, data |-> d] : d \in {Undefined, JsString(<<"d1">>), JsString(<<"d2">>)}}
NoInlineData == [defined |-> FALSE, data |-> Undefined]
PartValues ==
    {[inlineData |-> i, text |-> Undefined] : i \in InlineDataValues}
    \cup {[inlineData |-> NoInlineData, text |-> t] :
             t \in {Undefined, JsString(<<>>), JsString(<<"t1">>)}}
    \cup {[inlineData |-> [defined |-> TRUE, data |-> JsString(<<"d1">>)],
           text |-> JsString(<<"t1">>)]}

PartLists == UNION {[1..n -> PartValues] : n \in 0..MaxParts}

CandidateValues ==
    {[defined |-> TRUE, finishReason |-> f, content |-> "parts", parts |-> p] :
        f \in {"STOP", "SAFETY"}, p \in PartLists}
    \cup {[defined |-> TRUE, finishReason |-> f, content |-> c, parts |-> << >>] :
        f \in {"STOP", "SAFETY"}, c \in {"undefined", "noParts"}}

UndefinedResponse == [defined |-> FALSE, hasCandidates |-> FALSE, candidates |-> << >>]
ApiResponses ==
    {UndefinedResponse,
     [defined |-> TRUE, hasCandidates |-> FALSE, candidates |-> << >>],
     [defined |-> TRUE, hasCandidates |-> TRUE, candidates |-> << >>]}
    \cup {[defined |-> TRUE, hasCandidates |-> TRUE, candidates |-> <<c>>] :
             c \in CandidateValues}

ApiErrors == {NewError(<<"fetch failed">>), NewError(<<>>), NonError}

\* a text of n characters
Text(n) == [i \in 1..n |-> IF i % 2 = 1 THEN "a" ELSE "b"]
TextLens == {0, 1, TruncLen - 1, TruncLen} \cup {TruncLen + k : k \in 1..MaxExtra}

\* responses produced on the way by something other than the handler
InfraBodies ==
    {JsonStringify([error |-> e, base64Image |-> i]) :
        e \in {Undefined, JsString(<<>>), JsString(<<"e1">>)},
        i \in {Undefined, JsString(<<>>), JsString(<<"img">>)}}
    \cup {JsonNullBody}
    \cup {TextBody(Text(n)) : n \in TextLens}
InfraResponses == [status : {200, 500, 504}, body : InfraBodies]

NoHttp == [status |-> 0, body |-> NoBodyYet]
NoApiCall == [made |-> FALSE, model |-> "", data |-> Undefined, mimeType |-> Undefined, prompt |-> << >>]
NoOutcome == [kind |-> "none", response |-> UndefinedResponse, error |-> NoError]
NoArgs == [k \in FieldNames |-> Undefined]

----------------------------------------------------------------------------
(* The state machine *)

Init ==
    /\ deployed \in {"verbose", "concise"}
    /\ env \in EnvValues
    /\ req = [method |-> "", body |-> UndefinedBody]
    /\ hpc = "idle"
    /\ res = NoResponse
    /\ sent = 0
    /\ escaped = NoError
    /\ calls = 0
    /\ apiCall = NoApiCall
    /\ ext = NoOutcome
    /\ bodyRead = FALSE
    /\ envRead = FALSE
    /\ log = {}
    /\ client = "none"
    /\ cargs = NoArgs
    /\ cpc = "idle"
    /\ http = NoHttp
    /\ cresult = Pending

\* generateIdPhoto up to its await of fetch
ClientCall(draft, args) ==
    /\ cpc = "idle" /\ hpc = "idle"
    /\ client' = draft
    /\ cargs' = args
    /\ cpc' = "fetching"
    /\ req' = [method |-> "POST", body |-> ParseRequestBody(JsonStringify(args))]
    /\ hpc' = "start"
    /\ UNCHANGED <<deployed, env, http, cresult>>
    /\ UNCHANGED handlerVars

\* a request to the endpoint that does not come from generateIdPhoto
DirectRequest(r) ==
    /\ cpc = "idle" /\ hpc = "idle"
    /\ req' = r
    /\ hpc' = "start"
    /\ cpc' = "absent"
    /\ UNCHANGED <<deployed, env, client, cargs, http, cresult>>
    /\ UNCHANGED handlerVars

\* handler: the method is not POST
HandlerMethodNotAllowed ==
    /\ hpc = "start"
    /\ req.method # "POST"
    /\ res' = MethodNotAllowedResponse(res)
    /\ sent' = sent + 1
    /\ hpc' = "done"
    /\ UNCHANGED <<deployed, env, req, escaped, calls, apiCall, ext, bodyRead, envRead, log>>
    /\ UNCHANGED clientVars

\* handler: destructuring req.body when it is undefined throws, outside the try
HandlerBodyUndefined ==
    /\ hpc = "start"
    /\ req.method = "POST"
    /\ ~req.body.defined
    /\ bodyRead' = TRUE
    /\ escaped' = NewError(<<"Cannot destructure property 'base64Image' of 'req.body' as it is undefined.">>)
    /\ hpc' = "done"
    /\ UNCHANGED <<deployed, env, req, res, sent, calls, apiCall, ext, envRead, log>>
    /\ UNCHANGED clientVars

\* handler: a required parameter is missing
HandlerMissingParams ==
    /\ hpc = "start"
    /\ req.method = "POST"
    /\ req.body.defined
    /\ MissingParams(Destructure(req.body))
    /\ bodyRead' = TRUE
    /\ res' = MissingParamsResponse(res)
    /\ sent' = sent + 1
    /\ hpc' = "done"
    /\ UNCHANGED <<deployed, env, req, escaped, calls, apiCall, ext, envRead, log>>
    /\ UNCHANGED clientVars

\* handler: the credential is missing or empty
HandlerNoApiKey ==
    /\ hpc = "start"
    /\ req.method = "POST"
    /\ req.body.defined
    /\ ~MissingParams(Destructure(req.body))
    /\ ~Truthy(env.API_KEY)
    /\ bodyRead' = TRUE
    /\ envRead' = TRUE
    /\ log' = log \cup {<<"Available environment variable keys:">> \o EnvKeys(env),
                        <<"API_KEY environment variable is missing or empty.">>}
    /\ res' = ConfigErrorResponse(res, env)
    /\ sent' = sent + 1
    /\ hpc' = "done"
    /\ UNCHANGED <<deployed, env, req, escaped, calls, apiCall, ext>>
    /\ UNCHANGED clientVars

\* handler: new GoogleGenAI(...) throws, outside the try
HandlerConstructorThrows ==
    /\ hpc = "start"
    /\ req.method = "POST"
    /\ req.body.defined
    /\ ~MissingParams(Destructure(req.body))
    /\ Truthy(env.API_KEY)
    /\ bodyRead' = TRUE
    /\ envRead' = TRUE
    /\ escaped' = NewError(<<"GoogleGenAI constructor failed">>)
    /\ hpc' = "done"
    /\ UNCHANGED <<deployed, env, req, res, sent, calls, apiCall, ext, log>>
    /\ UNCHANGED clientVars

\* handler: builds the prompt and calls the external API, then awaits it
HandlerCallApi ==
    /\ hpc = "start"
    /\ req.method = "POST"
    /\ req.body.defined
    /\ ~MissingParams(Destructure(req.body))
    /\ Truthy(env.API_KEY)
    /\ LET f == Destructure(req.body)
       IN  apiCall' = [made     |-> TRUE,
                       model    |-> "gemini-2.5-flash-image",
                       data     |-> f.base64Image,
                       mimeType |-> f.mimeType,
                       prompt   |-> BuildPrompt(deployed, f.outfit, f.backgroundColor,
                                                f.enableBeautification)]
    /\ bodyRead' = TRUE
    /\ envRead' = TRUE
    /\ calls' = calls + 1
    /\ hpc' = "awaiting"
    /\ UNCHANGED <<deployed, env, req, res, sent, escaped, ext, log>>
    /\ UNCHANGED clientVars

\* handler: the awaited call resolved with response
HandlerOnResponse(response) ==
    /\ hpc = "awaiting"
    /\ ext' = [kind |-> "returned", response |-> response, error |-> NoError]
    /\ IF response.defined
         THEN /\ res' = InterpretResponse(res, response)
              /\ log' = log
         ELSE /\ res' = CatchResponse(res, TypeErrorOfUndefined)
              /\ log' = log \cup {<<"Error generating ID photo in serverless function:">>
                                  \o TypeErrorOfUndefined.message}
    /\ sent' = sent + 1
    /\ hpc' = "done"
    /\ UNCHANGED <<deployed, env, req, escaped, calls, apiCall, bodyRead, envRead>>
    /\ UNCHANGED clientVars

\* as HandlerOnThrow, calling the external API once more after the first failure
HandlerOnThrowRetry(error) ==
    /\ hpc = "awaiting"
    /\ IF calls < 2
         THEN /\ calls' = calls + 1
              /\ UNCHANGED <<ext, res, log, sent, hpc>>
         ELSE /\ ext' = [kind |-> "threw", response |-> UndefinedResponse, error |-> error]
              /\ res' = CatchResponse(res, error)
              /\ log' = log \cup {<<"Error generating ID photo in serverless function:">> \o error.message}
              /\ sent' = sent + 1
              /\ hpc' = "done"
              /\ calls' = calls
    /\ UNCHANGED <<deployed, env, req, escaped, apiCall, bodyRead, envRead>>
    /\ UNCHANGED clientVars

\* handler: the awaited call rejected with error
HandlerOnThrow(error) ==
    /\ hpc = "awaiting"
    /\ ext' = [kind |-> "threw", response |-> UndefinedResponse, error |-> error]
    /\ res' = CatchResponse(res, error)
    /\ log' = log \cup {<<"Error generating ID photo in serverless function:">> \o error.message}
    /\ sent' = sent + 1
    /\ hpc' = "done"
    /\ UNCHANGED <<deployed, env, req, escaped, calls, apiCall, bodyRead, envRead>>
    /\ UNCHANGED clientVars

\* fetch resolves with the response the handler sent
FetchResolves ==
    /\ cpc = "fetching"
    /\ hpc = "done"
    /\ sent > 0
    /\ http' = [status |-> res.status, body |-> res.body]
    /\ cpc' = "received"
    /\ UNCHANGED <<deployed, env, req, hpc, client, cargs, cresult>>
    /\ UNCHANGED handlerVars

\* the platform answers for a function that threw
PlatformCrashPage(t) ==
    /\ cpc = "fetching"
    /\ hpc = "done"
    /\ escaped.thrown
    /\ http' = [status |-> 500, body |-> TextBody(t)]
    /\ cpc' = "received"
    /\ UNCHANGED <<deployed, env, req, hpc, client, cargs, cresult>>
    /\ UNCHANGED handlerVars

\* something on the way answers instead of the handler (a timeout page, a proxy)
InfraRespond(r) ==
    /\ cpc = "fetching"
    /\ hpc \in {"start", "awaiting"}
    /\ hpc' = "aborted"
    /\ http' = r
    /\ cpc' = "received"
    /\ UNCHANGED <<deployed, env, req, client, cargs, cresult>>
    /\ UNCHANGED handlerVars

\* fetch rejects: the request never reached the endpoint
FetchRejects ==
    /\ cpc = "fetching"
    /\ hpc = "start"
    /\ hpc' = "aborted"
    /\ cresult' = ClientCatch(NewError(<<"Failed to fetch">>))
    /\ cpc' = "done"
    /\ UNCHANGED <<deployed, env, req, client, cargs, http>>
    /\ UNCHANGED handlerVars

\* generateIdPhoto after fetch resolved, first draft
ClientSettleA ==
    /\ cpc = "received"
    /\ client = "A"
    /\ cresult' = generateIdPhotoA(http)
    /\ cpc' = "done"
    /\ UNCHANGED <<deployed, env, req, hpc, client, cargs, http>>
    /\ UNCHANGED handlerVars

\* generateIdPhoto after fetch resolved, second draft
ClientSettleB ==
    /\ cpc = "received"
    /\ client = "B"
    /\ cresult' = generateIdPhotoB(http)
    /\ cpc' = "done"
    /\ UNCHANGED <<deployed, env, req, hpc, client, cargs, http>>
    /\ UNCHANGED handlerVars

Next ==
    \/ \E d \in {"A", "B"}, a \in ClientArgs : ClientCall(d, a)
    \/ \E r \in RawRequests : DirectRequest(r)
    \/ HandlerMethodNotAllowed
    \/ HandlerBodyUndefined
    \/ HandlerMissingParams
    \/ HandlerNoApiKey
    \/ HandlerConstructorThrows
    \/ HandlerCallApi
    \/ \E r \in ApiResponses : HandlerOnResponse(r)
    \/ \E e \in ApiErrors : HandlerOnThrow(e)
    \/ FetchResolves
    \/ \E n \in TextLens : PlatformCrashPage(Text(n))
    \/ \E r \in InfraResponses : InfraRespond(r)
    \/ FetchRejects
    \/ ClientSettleA
    \/ ClientSettleB

Spec == Init /\ [][Next]_vars

----------------------------------------------------------------------------
(* Properties *)

\* s occurs in t as a contiguous run of atoms
Contains(t, s) ==
    \E i \in 1..(Len(t) + 1) :
        /\ i + Len(s) - 1 <= Len(t)
        /\ SubSeq(t, i, i + Len(s) - 1) = s

\* the field k of the request body is there and not empty
Present(k) == k \in DOMAIN req.body.obj /\ Truthy(req.body.obj[k])

\* the response is a JSON object whose only field is error, with message m
ErrorIs(code, m) ==
    /\ res.status = code
    /\ res.body.kind = "object"
    /\ DOMAIN res.body.obj = {"error"}
    /\ res.body.obj["error"] = JsString(m)

\* C1: once the external call has returned a response object, the handler's
\* response is that of the first matching case: SAFETY finish reason -> 400
\* safety message (whatever segments there are); no content segments -> 500
\* retry message; an inline-image segment -> 200 whose only field base64Image
\* is the data of the first such segment; else a segment with (non-empty)
\* text -> 500 with that text after the prefix; else 500 generic message.
C1_ResponsePriority ==
    (hpc = "done" /\ ext.kind = "returned" /\ ext.response.defined) =>
        LET c      == FirstCandidate(ext.response)
            safety == c.defined /\ c.finishReason = "SAFETY"
            empty  == ~c.defined \/ c.content # "parts" \/ c.parts = << >>
            images == {i \in 1..Len(c.parts) : c.parts[i].inlineData.defined}
            texts  == {i \in 1..Len(c.parts) :
                          c.parts[i].text.type = "string" /\ c.parts[i].text.str # << >>}
            first(S) == CHOOSE i \in S : \A j \in S : i <= j
        IN  /\ sent = 1
            /\ safety => ErrorIs(400, SafetyMsg)
            /\ (~safety /\ empty) => ErrorIs(500, EmptyResponseMsg)
            /\ (~safety /\ ~empty /\ images # {}) =>
                   /\ res.status = 200
                   /\ res.body.kind = "object"
                   /\ DOMAIN res.body.obj \subseteq {"base64Image"}
                   /\ Get(res.body.obj, "base64Image") = c.parts[first(images)].inlineData.data
            /\ (~safety /\ ~empty /\ images = {} /\ texts # {}) =>
                   ErrorIs(500, AiMessagePrefix \o c.parts[first(texts)].text.str)
            /\ (~safety /\ ~empty /\ images = {} /\ texts = {}) =>
                   ErrorIs(500, CouldNotGenerateMsg)

\* a text segment first, then two image segments with different data: 200 with
\* the data of the first image
C1_Witness ==
    /\ hpc = "done" /\ ext.kind = "returned" /\ ext.response.defined
    /\ LET c == FirstCandidate(ext.response)
       IN  /\ c.defined /\ c.finishReason = "STOP" /\ Len(c.parts) = 2
           /\ ~c.parts[1].inlineData.defined /\ Truthy(c.parts[1].text)
           /\ c.parts[2].inlineData.defined /\ c.parts[2].inlineData.data = JsString(<<"d2">>)
    /\ res.status = 200
    /\ Get(res.body.obj, "base64Image") = JsString(<<"d2">>)

\* C2: every invocation of handler that has ended has sent exactly one
\* response and let no exception out.
C2_ExactlyOneResponse ==
    hpc = "done" => (sent = 1 /\ ~escaped.thrown)

\* C3 as stated: every request causes exactly one external call.
C3_ExactlyOneCall ==
    hpc = "done" => calls = 1

\* C3 as amended: never more than one external call per request (no retry),
\* and exactly one when the request is a POST whose body passes validation,
\* the credential is set and the API client was constructed; none otherwise.
C3_AtMostOneCall ==
    /\ calls <= 1
    /\ hpc = "done" =>
          calls = (IF /\ req.method = "POST"
                      /\ req.body.defined
                      /\ \A k \in FieldNames \ {"enableBeautification"} : Present(k)
                      /\ "enableBeautification" \in DOMAIN req.body.obj
                      /\ env.API_KEY.type = "string" /\ env.API_KEY.str # << >>
                      /\ ~escaped.thrown
                   THEN 1 ELSE 0)

\* the external call failed and was not repeated
C3_Witness ==
    hpc = "done" /\ ext.kind = "threw" /\ calls = 1 /\ res.status = 500

C5_MethodNotAllowed ==
    (hpc # "idle" /\ req.method # "POST") =>
        /\ ~bodyRead /\ ~envRead /\ calls = 0 /\ ~apiCall.made
        /\ hpc = "done" =>
              /\ res.status = 405
              /\ <<"Allow", "POST">> \in res.headers
              /\ sent = 1

\* a GET carrying a complete body: 405, the body untouched
C5_Witness ==
    /\ hpc = "done" /\ req.method = "GET" /\ req.body.defined
    /\ DOMAIN req.body.obj = FieldNames
    /\ res.status = 405 /\ ~bodyRead

C7_CaughtMessage ==
    (hpc = "done" /\ (ext.kind = "threw" \/ (ext.kind = "returned" /\ ~ext.response.defined))) =>
        LET error == IF ext.kind = "threw" THEN ext.error ELSE TypeErrorOfUndefined
            carriesMessage == error.isError /\ error.message # << >>
        IN  ErrorIs(500, IF carriesMessage THEN error.message ELSE UnknownErrorMsg)

\* C8: on a non-success status generateIdPhoto rejects with the error field
\* of a JSON body, and for a body that is not JSON with the first 200
\* characters of the body's text, followed by '...' when the text is longer
\* (stated of the draft that has the text fallback).
C8_ErrorMessage ==
    (cpc = "done" /\ client = "B" /\ http.status # 0
        /\ ~(http.status >= 200 /\ http.status <= 299)) =>
        /\ cresult.state = "rejected"
        /\ (http.body.kind = "object" /\ Truthy(Get(http.body.obj, "error"))) =>
               cresult.error.message = http.body.obj["error"].str
        /\ http.body.kind = "text" =>
               LET t == http.body.text
               IN  cresult.error.message =
                       IF Len(t) > TruncLen
                         THEN [i \in 1..TruncLen |-> t[i]] \o <<".", ".", ".">>
                         ELSE t

\* C9: on a success status, a parsed body without base64Image (absent or
\* empty) makes generateIdPhoto reject with the no-image-data Error, a body
\* with it makes it resolve with exactly that value; it never resolves with
\* an undefined or empty value.
C9_NeverResolvesEmpty ==
    /\ cresult.state = "resolved" =>
          (cresult.value.type = "string" /\ cresult.value.str # << >>)
    /\ (cpc = "done" /\ http.status >= 200 /\ http.status <= 299 /\ http.body.kind = "object") =>
          LET image == Get(http.body.obj, "base64Image")
          IN  IF image.type = "undefined" \/ image = JsString(<< >>)
                THEN /\ cresult.state = "rejected"
                     /\ cresult.error.isError
                     /\ cresult.error.message = NoImageDataMsg
                ELSE /\ cresult.state = "resolved"
                     /\ cresult.value = image

\* a 200 whose body has no base64Image: rejected, not resolved
C9_Witness ==
    /\ cpc = "done" /\ http.status = 200 /\ http.body.kind = "object"
    /\ "base64Image" \notin DOMAIN http.body.obj
    /\ cresult.state = "rejected"
    /\ cresult.error.message = NoImageDataMsg

\* C10: the prompt sent to the external API is not empty, contains the hex
\* code of the colour (#a0d8ef, #ffffff, #f0f0f0; #ffffff for any other
\* value) and the clothing phrase of the outfit (professional business attire
\* for any other value), and with enableBeautification false contains an
\* explicit instruction that disables beautification.
C10_PromptContents ==
    apiCall.made =>
        LET f      == [k \in FieldNames |-> Get(req.body.obj, k)]
            hex    == IF f.backgroundColor = JsString(Blue) THEN <<"#a0d8ef">>
                      ELSE IF f.backgroundColor = JsString(Gray) THEN <<"#f0f0f0">>
                      ELSE <<"#ffffff">>
            phrase == IF f.outfit = JsString(MaleSuit)
                        THEN <<"dark-colored business suit with a white collared shirt and a simple tie">>
                      ELSE IF f.outfit = JsString(FemaleSuit)
                        THEN <<"dark-colored business suit with a white blouse">>
                      ELSE <<"professional business attire">>
        IN  /\ apiCall.prompt # << >>
            /\ Contains(apiCall.prompt, hex)
            /\ Contains(apiCall.prompt, phrase)
            /\ f.enableBeautification = JsBool(FALSE) =>
                  \/ Contains(apiCall.prompt, <<"All cosmetic adjustments are disabled.">>)
                  \/ Contains(apiCall.prompt, <<"Disabled.">>)

\* an unrecognised colour and outfit with beautification off
C10_Witness ==
    /\ apiCall.made
    /\ Get(req.body.obj, "backgroundColor") = JsString(Purple)
    /\ Get(req.body.obj, "outfit") = JsString(CasualWear)
    /\ Get(req.body.obj, "enableBeautification") = JsBool(FALSE)
    /\ Contains(apiCall.prompt, <<"#ffffff">>)

====
